---------------------------- MODULE Spec2Model ----------------------------
(***************************************************************************)
(* Model of .github/scripts/release.py: the release updater that bumps     *)
(* `version` in manifest.json and prepends an update record to the         *)
(* matching addon of updates.json.                                         *)
(*                                                                         *)
(* JSON values are tagged records, JSON objects keep their members as a    *)
(* sequence of key/value pairs in insertion order (a Python dict), files   *)
(* are sequences of lexical tokens (punctuation, string literals, the      *)
(* literal null, single whitespace characters), and a file handle is a     *)
(* position in that sequence.                                              *)
(***************************************************************************)
EXTENDS Naturals, Sequences, FiniteSets, TLC

(***************************************************************************)
(* Bounds of the model.                                                    *)
(***************************************************************************)
\* Number of consecutive invocations of the script that are explored.
MaxRuns == 2

\* Largest number of command-line arguments passed after the script name.
MaxArgs == 2

(***************************************************************************)
(* JSON values, as json.load builds them.                                  *)
(***************************************************************************)
Str(s) == [t |-> "str", v |-> s]

Arr(items) == [t |-> "arr", v |-> items]

Obj(pairs) == [t |-> "obj", v |-> pairs]

JNull == [t |-> "null", v |-> "null"]

\* The value of a local variable that has not been assigned yet.
Unset == [t |-> "unset", v |-> ""]

Pair(key, value) == [k |-> key, val |-> value]

\* `key in d` for the members of a dict.
HasKey(pairs, key) == \E i \in 1..Len(pairs) : pairs[i].k = key

\* d[key] for a key that is present.
Lookup(pairs, key) == pairs[CHOOSE i \in 1..Len(pairs) : pairs[i].k = key].val

Keys(pairs) == {pairs[i].k : i \in 1..Len(pairs)}

\* d[key] = value on the members of a dict: an existing key keeps its
\* position and takes the new value, a new key goes last.
SetItem(pairs, key, value) ==
    IF HasKey(pairs, key)
    THEN [i \in 1..Len(pairs) |->
            IF pairs[i].k = key THEN Pair(key, value) ELSE pairs[i]]
    ELSE Append(pairs, Pair(key, value))

\* The subscription o[key] with a string key, on any JSON value: the value,
\* or the exception Python raises.
GetItem(o, key) ==
    IF o.t = "obj"
    THEN IF HasKey(o.v, key)
         THEN [err |-> "", val |-> Lookup(o.v, key)]
         ELSE [err |-> "KeyError", val |-> Unset]
    ELSE [err |-> "TypeError", val |-> Unset]

(***************************************************************************)
(* Tokens of a JSON text.                                                  *)
(***************************************************************************)
P(c) == [k |-> "p", v |-> c]

S(s) == [k |-> "s", v |-> s]

L(w) == [k |-> "l", v |-> w]

W(c) == [k |-> "w", v |-> c]

\* A character that starts no JSON token.
Garbage == [k |-> "x", v |-> "?"]

Spaces(n) == [i \in 1..n |-> W(" ")]

NewlineIndent(indent, level) == <<W("\n")>> \o Spaces(indent * level)

(***************************************************************************)
(* json.dump(obj, f, indent=indent): the text written, as tokens.          *)
(***************************************************************************)
RECURSIVE Dump(_, _, _)
RECURSIVE DumpElements(_, _, _, _)
RECURSIVE DumpMembers(_, _, _, _)

Dump(o, indent, level) ==
    CASE o.t = "str" -> <<S(o.v)>>
      [] o.t = "null" -> <<L("null")>>
      [] o.t = "arr" ->
            IF Len(o.v) = 0
            THEN <<P("["), P("]")>>
            ELSE <<P("[")>> \o DumpElements(o.v, 1, indent, level + 1)
                    \o NewlineIndent(indent, level) \o <<P("]")>>
      [] o.t = "obj" ->
            IF Len(o.v) = 0
            THEN <<P("{"), P("}")>>
            ELSE <<P("{")>> \o DumpMembers(o.v, 1, indent, level + 1)
                    \o NewlineIndent(indent, level) \o <<P("}")>>

DumpElements(items, i, indent, level) ==
    IF i > Len(items)
    THEN <<>>
    ELSE (IF i > 1 THEN <<P(",")>> ELSE <<>>)
            \o NewlineIndent(indent, level)
            \o Dump(items[i], indent, level)
            \o DumpElements(items, i + 1, indent, level)

DumpMembers(pairs, i, indent, level) ==
    IF i > Len(pairs)
    THEN <<>>
    ELSE (IF i > 1 THEN <<P(",")>> ELSE <<>>)
            \o NewlineIndent(indent, level)
            \o <<S(pairs[i].k), P(":"), W(" ")>>
            \o Dump(pairs[i].val, indent, level)
            \o DumpMembers(pairs, i + 1, indent, level)

(***************************************************************************)
(* json.load(f): the value of a text, or a JSONDecodeError.                *)
(***************************************************************************)
RECURSIVE SkipWs(_, _)
RECURSIVE ParseValue(_, _)
RECURSIVE ParseElements(_, _, _)
RECURSIVE ParseMembers(_, _, _)

SkipWs(toks, i) ==
    IF i <= Len(toks) /\ toks[i].k = "w" THEN SkipWs(toks, i + 1) ELSE i

ParseFail == [ok |-> FALSE, val |-> Unset, next |-> 0]

ParseOk(value, next) == [ok |-> TRUE, val |-> value, next |-> next]

IsTok(toks, i, tok) == i <= Len(toks) /\ toks[i] = tok

ParseValue(toks, i0) ==
    LET i == SkipWs(toks, i0)
    IN  IF i > Len(toks) THEN ParseFail
        ELSE CASE toks[i].k = "s" -> ParseOk(Str(toks[i].v), i + 1)
               [] toks[i] = L("null") -> ParseOk(JNull, i + 1)
               [] toks[i] = P("[") ->
                    IF IsTok(toks, SkipWs(toks, i + 1), P("]"))
                    THEN ParseOk(Arr(<<>>), SkipWs(toks, i + 1) + 1)
                    ELSE ParseElements(toks, i + 1, <<>>)
               [] toks[i] = P("{") ->
                    IF IsTok(toks, SkipWs(toks, i + 1), P("}"))
                    THEN ParseOk(Obj(<<>>), SkipWs(toks, i + 1) + 1)
                    ELSE ParseMembers(toks, i + 1, <<>>)
               [] OTHER -> ParseFail

ParseElements(toks, i0, acc) ==
    LET r == ParseValue(toks, i0)
        j == SkipWs(toks, r.next)
    IN  IF ~r.ok THEN ParseFail
        ELSE IF IsTok(toks, j, P(","))
             THEN ParseElements(toks, j + 1, Append(acc, r.val))
        ELSE IF IsTok(toks, j, P("]"))
             THEN ParseOk(Arr(Append(acc, r.val)), j + 1)
        ELSE ParseFail

ParseMembers(toks, i0, acc) ==
    LET i == SkipWs(toks, i0)
        c == SkipWs(toks, i + 1)
        r == ParseValue(toks, c + 1)
        j == SkipWs(toks, r.next)
    IN  IF ~(i <= Len(toks) /\ toks[i].k = "s") THEN ParseFail
        ELSE IF ~IsTok(toks, c, P(":")) THEN ParseFail
        ELSE IF ~r.ok THEN ParseFail
        ELSE IF IsTok(toks, j, P(","))
             THEN ParseMembers(toks, j + 1, SetItem(acc, toks[i].v, r.val))
        ELSE IF IsTok(toks, j, P("}"))
             THEN ParseOk(Obj(SetItem(acc, toks[i].v, r.val)), j + 1)
        ELSE ParseFail

\* The whole text must be one value, whitespace around it allowed.
JsonLoad(toks) ==
    LET r == ParseValue(toks, 1)
    IN  IF r.ok /\ SkipWs(toks, r.next) > Len(toks) THEN r ELSE ParseFail

(***************************************************************************)
(* Files and file handles: open(path, 'r+'), f.seek, f.write, f.truncate.  *)
(***************************************************************************)
File(text) == [exists |-> TRUE, content |-> text]

Missing == [exists |-> FALSE, content |-> <<>>]

Closed == [path |-> "", pos |-> 0]

\* OpenFile with mode 'w+': the file is created or emptied.
OpenFileCreating(file) == [err |-> "", file |-> [exists |-> TRUE, content |-> <<>>]]

\* open(path, 'r+'): the file must exist, it is neither created nor
\* truncated, and the position starts at 0.
OpenFile(file) ==
    IF file.exists
    THEN [err |-> "", file |-> file]
    ELSE [err |-> "FileNotFoundError", file |-> file]

\* A write of `text` at position pos: it overwrites what is there and
\* extends the file past its end.
FWrite(content, pos, text) ==
    SubSeq(content, 1, pos) \o text
        \o SubSeq(content, pos + Len(text) + 1, Len(content))

\* FTruncate left out.
FTruncateNothing(content, pos) == content

\* f.truncate(): the file is cut at the current position.
FTruncate(content, pos) == SubSeq(content, 1, pos)

(***************************************************************************)
(* The script's constants and pure steps.                                  *)
(***************************************************************************)
manifest_path == "manifest.json"

updates_path == "updates.json"

Paths == {manifest_path, updates_path}

\* indent=2 of both json.dump calls.
Indent == 2

Usage == "Usage: python3 .github/scripts/release.py <new_version>"

\* MissingArgument as a test for exactly one argument.
MissingArgumentNotOne(args) == Len(args) # 2

\* MissingArgument with the bound off by one: the script name alone passes.
MissingArgumentOffByOne(args) == Len(args) < 1

\* len(sys.argv) < 2
MissingArgument(args) == Len(args) < 2

\* SetVersion writing a key of another spelling.
SetVersionWrongKey(m, nv) ==
    IF m.t = "obj"
    THEN [err |-> "", val |-> Obj(SetItem(m.v, "Version", Str(nv)))]
    ELSE [err |-> "TypeError", val |-> m]

\* manifest['version'] = new_version
SetVersion(m, nv) ==
    IF m.t = "obj"
    THEN [err |-> "", val |-> Obj(SetItem(m.v, "version", Str(nv)))]
    ELSE [err |-> "TypeError", val |-> m]

\* ExtractId with dict.get and a default instead of subscriptions.
ExtractIdWithDefault(m) ==
    LET a == GetItem(m, "browser_specific_settings")
        b == GetItem(a.val, "gecko")
        c == GetItem(b.val, "id")
    IN  IF a.err # "" \/ b.err # "" \/ c.err # ""
        THEN [err |-> "", val |-> Str("")]
        ELSE c

\* manifest['browser_specific_settings']['gecko']['id']
ExtractId(m) ==
    LET a == GetItem(m, "browser_specific_settings")
        b == GetItem(a.val, "gecko")
        c == GetItem(b.val, "id")
    IN  IF a.err # "" THEN a
        ELSE IF b.err # "" THEN b
        ELSE c

\* The f-string of line 30.
UpdateLink(nv) ==
    "https://github.com/t4k/preserve-email/releases/download/v" \o nv
        \o "/preserve_email-" \o nv \o "-tb.xpi"

\* The dict literal of lines 35-38.
Record(nv, link) ==
    Obj(<<Pair("version", Str(nv)), Pair("update_link", Str(link))>>)

\* InsertRelease with list.append instead of list.insert(0, ...).
InsertReleaseAtEnd(u, id, record) ==
    LET a == GetItem(u, "addons")
        b == GetItem(a.val, id.v)
        c == GetItem(b.val, "updates")
    IN  IF a.err # "" THEN [err |-> a.err, val |-> u]
        ELSE IF b.err # "" THEN [err |-> b.err, val |-> u]
        ELSE IF c.err # "" THEN [err |-> c.err, val |-> u]
        ELSE IF c.val.t # "arr" THEN [err |-> "AttributeError", val |-> u]
        ELSE [err |-> "",
              val |-> Obj(SetItem(u.v, "addons",
                        Obj(SetItem(a.val.v, id.v,
                          Obj(SetItem(b.val.v, "updates",
                            Arr(Append(c.val.v, record))))))))]

\* InsertRelease skipping a version that already heads the list.
InsertReleaseOnce(u, id, record) ==
    LET a == GetItem(u, "addons")
        b == GetItem(a.val, id.v)
        c == GetItem(b.val, "updates")
    IN  IF a.err # "" THEN [err |-> a.err, val |-> u]
        ELSE IF b.err # "" THEN [err |-> b.err, val |-> u]
        ELSE IF c.err # "" THEN [err |-> c.err, val |-> u]
        ELSE IF c.val.t # "arr" THEN [err |-> "AttributeError", val |-> u]
        ELSE IF Len(c.val.v) > 0 /\ c.val.v[1] = record THEN [err |-> "", val |-> u]
        ELSE [err |-> "",
              val |-> Obj(SetItem(u.v, "addons",
                        Obj(SetItem(a.val.v, id.v,
                          Obj(SetItem(b.val.v, "updates",
                            Arr(<<record>> \o c.val.v)))))))]

\* InsertRelease with setdefault: an unknown addon or a feed without
\* addons gets a new entry.
InsertReleaseCreating(u, id, record) ==
    LET a == GetItem(u, "addons")
        addons == IF a.err = "" THEN a.val ELSE Obj(<<>>)
        b == GetItem(addons, id.v)
        addon == IF b.err = "" THEN b.val ELSE Obj(<<>>)
        c == GetItem(addon, "updates")
        list == IF c.err = "" THEN c.val ELSE Arr(<<>>)
    IN  IF u.t # "obj" \/ addons.t # "obj" \/ addon.t # "obj"
        THEN [err |-> "TypeError", val |-> u]
        ELSE IF list.t # "arr" THEN [err |-> "AttributeError", val |-> u]
        ELSE [err |-> "",
              val |-> Obj(SetItem(u.v, "addons",
                        Obj(SetItem(addons.v, id.v,
                          Obj(SetItem(addon.v, "updates",
                            Arr(<<record>> \o list.v)))))))]

\* InsertRelease assigning the addon a new entry that holds the list only.
InsertReleaseNewEntry(u, id, record) ==
    LET a == GetItem(u, "addons")
        b == GetItem(a.val, id.v)
        c == GetItem(b.val, "updates")
    IN  IF a.err # "" THEN [err |-> a.err, val |-> u]
        ELSE IF b.err # "" THEN [err |-> b.err, val |-> u]
        ELSE IF c.err # "" THEN [err |-> c.err, val |-> u]
        ELSE IF c.val.t # "arr" THEN [err |-> "AttributeError", val |-> u]
        ELSE [err |-> "",
              val |-> Obj(SetItem(u.v, "addons",
                        Obj(SetItem(a.val.v, id.v,
                          Obj(<<Pair("updates", Arr(<<record>> \o c.val.v))>>)))))]

\* updates['addons'][addon_id]['updates'].insert(0, record): the updated
\* feed, or the exception of the first subscription that fails.
InsertRelease(u, id, record) ==
    LET a == GetItem(u, "addons")
        b == GetItem(a.val, id.v)
        c == GetItem(b.val, "updates")
    IN  IF a.err # "" THEN [err |-> a.err, val |-> u]
        ELSE IF b.err # "" THEN [err |-> b.err, val |-> u]
        ELSE IF c.err # "" THEN [err |-> c.err, val |-> u]
        ELSE IF c.val.t # "arr" THEN [err |-> "AttributeError", val |-> u]
        ELSE [err |-> "",
              val |-> Obj(SetItem(u.v, "addons",
                        Obj(SetItem(a.val.v, id.v,
                          Obj(SetItem(b.val.v, "updates",
                            Arr(<<record>> \o c.val.v)))))))]

(***************************************************************************)
(* The inputs explored: manifests, update feeds, their texts, arguments.   *)
(***************************************************************************)
Id1 == "addon@example.com"

Id2 == "other@example.com"

Gecko(id) == Obj(<<Pair("gecko", Obj(<<Pair("id", Str(id))>>))>>)

ManifestFull ==
    Obj(<<Pair("name", Str("Preserve Email")),
          Pair("version", Str("1.0.0")),
          Pair("browser_specific_settings", Gecko(Id1))>>)

ManifestNoVersion ==
    Obj(<<Pair("browser_specific_settings", Gecko(Id1)),
          Pair("name", Str("Preserve Email"))>>)

ManifestNoSettings ==
    Obj(<<Pair("name", Str("Preserve Email")), Pair("version", Str("1.0.0"))>>)

ManifestNoGecko ==
    Obj(<<Pair("version", Str("1.0.0")),
          Pair("browser_specific_settings", Obj(<<>>))>>)

ManifestNoId ==
    Obj(<<Pair("version", Str("1.0.0")),
          Pair("browser_specific_settings",
               Obj(<<Pair("gecko",
                      Obj(<<Pair("strict_min_version", Str("78.0"))>>))>>))>>)

ManifestSettingsNull ==
    Obj(<<Pair("version", Str("1.0.0")),
          Pair("browser_specific_settings", JNull)>>)

ManifestArray == Arr(<<Str("1.0.0")>>)

OldRecord(v) == Record(v, "https://example.com/" \o v \o ".xpi")

Addon(records) == Obj(<<Pair("updates", Arr(records))>>)

FeedOne ==
    Obj(<<Pair("addons", Obj(<<Pair(Id1, Addon(<<OldRecord("1.0.0")>>))>>))>>)

FeedRich ==
    Obj(<<Pair("comment", Str("update feed")),
          Pair("addons",
               Obj(<<Pair(Id2, Addon(<<OldRecord("0.1.0")>>)),
                     Pair(Id1,
                          Obj(<<Pair("name", Str("Preserve Email")),
                                Pair("updates",
                                     Arr(<<OldRecord("1.0.0"),
                                           OldRecord("0.9.0")>>))>>))>>))>>)

FeedEmptyList == Obj(<<Pair("addons", Obj(<<Pair(Id1, Addon(<<>>))>>))>>)

FeedNoAddons == Obj(<<Pair("comment", Str("update feed"))>>)

FeedOtherAddon ==
    Obj(<<Pair("addons", Obj(<<Pair(Id2, Addon(<<OldRecord("0.1.0")>>))>>))>>)

FeedNoUpdates ==
    Obj(<<Pair("addons",
               Obj(<<Pair(Id1, Obj(<<Pair("name", Str("Preserve Email"))>>))>>))>>)

FeedUpdatesNotList ==
    Obj(<<Pair("addons", Obj(<<Pair(Id1, Obj(<<Pair("updates", Obj(<<>>))>>))>>))>>)

FeedArray == Arr(<<>>)

\* A text of value o as an editor or an earlier serializer may have left
\* it: indented by `indent`, ending in one newline.
Text(o, indent) == Dump(o, indent, 0) \o <<W("\n")>>

\* Texts that are not JSON: an empty file, a text cut before its end, a
\* text with a stray character after the value.
BadTexts(o) ==
    { <<>>,
      SubSeq(Text(o, Indent), 1, Len(Text(o, Indent)) - 3),
      Text(o, Indent) \o <<Garbage>> }

\* The manifests the script is run on with every update feed below.
MainManifestFiles ==
    { File(Text(ManifestFull, 4)), File(Text(ManifestNoVersion, 2)) }

OtherManifestFiles ==
    { File(Text(ManifestFull, 2)),
      File(Text(ManifestNoSettings, 2)),
      File(Text(ManifestNoGecko, 2)),
      File(Text(ManifestNoId, 4)),
      File(Text(ManifestSettingsNull, 2)),
      File(Text(ManifestArray, 2)),
      Missing }
        \cup { File(b) : b \in BadTexts(ManifestFull) }

\* The update feeds the script is run on with every manifest above.
MainUpdatesFiles ==
    { File(Text(FeedOne, 2)), Missing, File(<<>>) }

OtherUpdatesFiles ==
    { File(Text(FeedOne, 8)),
      File(Text(FeedRich, 2)),
      File(Text(FeedRich, 8)),
      File(Text(FeedEmptyList, 2)),
      File(Text(FeedNoAddons, 2)),
      File(Text(FeedOtherAddon, 2)),
      File(Text(FeedNoUpdates, 2)),
      File(Text(FeedUpdatesNotList, 2)),
      File(Text(FeedArray, 2)) }
        \cup { File(b) : b \in BadTexts(FeedOne) }

FileSystems ==
    { [p \in Paths |-> IF p = manifest_path THEN m ELSE u] :
        m \in MainManifestFiles, u \in MainUpdatesFiles \cup OtherUpdatesFiles }
    \cup
    { [p \in Paths |-> IF p = manifest_path THEN m ELSE u] :
        m \in OtherManifestFiles, u \in MainUpdatesFiles }

Script == ".github/scripts/release.py"

NewVersions == {"1.1.0", "2.0"}

\* sys.argv: the script, then no argument, one version, or a version
\* followed by further arguments.
ArgVectors ==
    { <<Script>> }
    \cup { <<Script, v>> : v \in NewVersions }
    \cup { <<Script, "1.1.0">> \o [i \in 1..n |-> "--extra"] :
            n \in 1..(MaxArgs - 1) }

(***************************************************************************)
(* State.                                                                  *)
(***************************************************************************)
VARIABLES
    fs,           \* the two files on disk
    argv,         \* sys.argv of the current run
    pc,           \* the line main() is at, "exit" when the process has ended
    new_version,  \* locals of main()
    manifest,
    addon_id,
    update_link,
    updates,
    f,            \* the open file handle: its path and position
    stdout,       \* lines printed by the current run
    exit,         \* exit status of the current run and the exception behind it
    trace,        \* file operations of the current run, in order
    run,          \* number of the current run
    pre,          \* the files as the current run found them
    prev          \* the previous run: its arguments, files found and status

vars ==
    <<fs, argv, pc, new_version, manifest, addon_id, update_link, updates, f,
      stdout, exit, trace, run, pre, prev>>

locals == <<new_version, manifest, addon_id, update_link, updates>>

history == <<run, pre, prev>>

Running == [code |-> 0, err |-> "running"]

Event(op, path) == [op |-> op, path |-> path]

NoRun == [ran |-> FALSE, argv |-> <<>>, pre |-> [p \in Paths |-> Missing],
          exit |-> Running]

Init ==
    /\ fs \in FileSystems
    /\ argv \in ArgVectors
    /\ pc = "l7"
    /\ new_version = ""
    /\ manifest = Unset
    /\ addon_id = Unset
    /\ update_link = ""
    /\ updates = Unset
    /\ f = Closed
    /\ stdout = <<>>
    /\ exit = Running
    /\ trace = <<>>
    /\ run = 1
    /\ pre = fs
    /\ prev = NoRun

(***************************************************************************)
(* An uncaught exception: the `with` block closes the open file, the      *)
(* interpreter prints the traceback to stderr and exits with status 1.     *)
(***************************************************************************)
Raise(err) ==
    /\ pc' = "exit"
    /\ exit' = [code |-> 1, err |-> err]
    /\ f' = Closed
    /\ trace' = IF f = Closed THEN trace ELSE Append(trace, Event("close", f.path))

(***************************************************************************)
(* main(), line by line.                                                   *)
(***************************************************************************)
\* Lines 7-11 and 17: the argument check, sys.argv[1] (an IndexError when
\* there is no such element), the first message.
CheckArgs ==
    /\ pc = "l7"
    /\ IF MissingArgument(argv)
       THEN /\ stdout' = Append(stdout, Usage)
            /\ pc' = "exit"
            /\ exit' = [code |-> 1, err |-> "SystemExit"]
            /\ UNCHANGED <<new_version, f, trace>>
       ELSE IF Len(argv) < 2
       THEN /\ Raise("IndexError")
            /\ UNCHANGED <<new_version, stdout>>
       ELSE /\ new_version' = argv[2]
            /\ stdout' = Append(stdout, "Reading " \o manifest_path \o "...")
            /\ pc' = "l18"
            /\ UNCHANGED <<exit, f, trace>>
    /\ UNCHANGED <<fs, argv, manifest, addon_id, update_link, updates, history>>

\* with open(path, 'r+') as f
Open(path, from, to) ==
    /\ pc = from
    /\ LET r == OpenFile(fs[path])
       IN  IF r.err # ""
           THEN /\ Raise(r.err)
                /\ UNCHANGED fs
           ELSE /\ fs' = [fs EXCEPT ![path] = r.file]
                /\ f' = [path |-> path, pos |-> 0]
                /\ trace' = Append(trace, Event("open", path))
                /\ pc' = to
                /\ UNCHANGED exit
    /\ UNCHANGED <<argv, locals, stdout, history>>

\* f.seek(0)
Seek(from, to) ==
    /\ pc = from
    /\ f' = [f EXCEPT !.pos = 0]
    /\ trace' = Append(trace, Event("seek", f.path))
    /\ pc' = to
    /\ UNCHANGED <<fs, argv, locals, stdout, exit, history>>

\* f.write(text), which json.dump(obj, f, indent=2) does with its chunks.
\* The file is shown as it reads through the handle; the buffered text
\* reaches the disk by f.truncate() and by the end of the `with` block.
Write(text, from, to) ==
    /\ pc = from
    /\ fs' = [fs EXCEPT ![f.path].content = FWrite(@, f.pos, text)]
    /\ f' = [f EXCEPT !.pos = @ + Len(text)]
    /\ trace' = Append(trace, Event("write", f.path))
    /\ pc' = to
    /\ UNCHANGED <<argv, locals, stdout, exit, history>>

\* f.truncate()
Truncate(from, to) ==
    /\ pc = from
    /\ fs' = [fs EXCEPT ![f.path].content = FTruncate(@, f.pos)]
    /\ trace' = Append(trace, Event("truncate", f.path))
    /\ pc' = to
    /\ UNCHANGED <<f, argv, locals, stdout, exit, history>>

OpenManifest == Open(manifest_path, "l18", "l19")

\* Line 19: manifest = json.load(f), which reads the file to its end.
LoadManifest ==
    /\ pc = "l19"
    /\ LET r == JsonLoad(fs[f.path].content)
       IN  IF r.ok
           THEN /\ manifest' = r.val
                /\ f' = [f EXCEPT !.pos = Len(fs[f.path].content)]
                /\ trace' = Append(trace, Event("read", f.path))
                /\ pc' = "l20"
                /\ UNCHANGED exit
           ELSE /\ Raise("JSONDecodeError")
                /\ UNCHANGED manifest
    /\ UNCHANGED <<fs, argv, new_version, addon_id, update_link, updates,
                   stdout, history>>

\* Line 20.
BumpVersion ==
    /\ pc = "l20"
    /\ LET r == SetVersion(manifest, new_version)
       IN  IF r.err = ""
           THEN /\ manifest' = r.val
                /\ pc' = "l21"
                /\ UNCHANGED <<exit, f, trace>>
           ELSE /\ Raise(r.err)
                /\ UNCHANGED manifest
    /\ UNCHANGED <<fs, argv, new_version, addon_id, update_link, updates,
                   stdout, history>>

SeekManifest == Seek("l21", "l22")

DumpManifest == Write(Dump(manifest, Indent, 0), "l22", "l23")

TruncateManifest == Truncate("l23", "l24")

NewlineManifest == Write(<<W("\n")>>, "l24", "l25")

\* The end of the first `with` block and line 25.
CloseManifest ==
    /\ pc = "l25"
    /\ trace' = Append(trace, Event("close", f.path))
    /\ f' = Closed
    /\ stdout' = Append(stdout, "Updated manifest.json to version " \o new_version)
    /\ pc' = "l29"
    /\ UNCHANGED <<fs, argv, locals, exit, history>>

\* Lines 28-32: the addon id, the update link, the second message.
ReadAddonId ==
    /\ pc = "l29"
    /\ LET r == ExtractId(manifest)
       IN  IF r.err = ""
           THEN /\ addon_id' = r.val
                /\ update_link' = UpdateLink(new_version)
                /\ stdout' = Append(stdout, "Reading " \o updates_path \o "...")
                /\ pc' = "l33"
                /\ UNCHANGED <<exit, f, trace>>
           ELSE /\ Raise(r.err)
                /\ UNCHANGED <<addon_id, update_link, stdout>>
    /\ UNCHANGED <<fs, argv, new_version, manifest, updates, history>>

OpenUpdates == Open(updates_path, "l33", "l34")

\* Line 34: updates = json.load(f).
LoadUpdates ==
    /\ pc = "l34"
    /\ LET r == JsonLoad(fs[f.path].content)
       IN  IF r.ok
           THEN /\ updates' = r.val
                /\ f' = [f EXCEPT !.pos = Len(fs[f.path].content)]
                /\ trace' = Append(trace, Event("read", f.path))
                /\ pc' = "l35"
                /\ UNCHANGED exit
           ELSE /\ Raise("JSONDecodeError")
                /\ UNCHANGED updates
    /\ UNCHANGED <<fs, argv, new_version, manifest, addon_id, update_link,
                   stdout, history>>

\* Lines 35-38.
InsertRecord ==
    /\ pc = "l35"
    /\ LET r == InsertRelease(updates, addon_id, Record(new_version, update_link))
       IN  IF r.err = ""
           THEN /\ updates' = r.val
                /\ pc' = "l39"
                /\ UNCHANGED <<exit, f, trace>>
           ELSE /\ Raise(r.err)
                /\ UNCHANGED updates
    /\ UNCHANGED <<fs, argv, new_version, manifest, addon_id, update_link,
                   stdout, history>>

SeekUpdates == Seek("l39", "l40")

DumpUpdates == Write(Dump(updates, Indent, 0), "l40", "l41")

TruncateUpdates == Truncate("l41", "l42")

NewlineUpdates == Write(<<W("\n")>>, "l42", "l43")

\* The end of the second `with` block, line 43, and the return of main().
CloseUpdates ==
    /\ pc = "l43"
    /\ trace' = Append(trace, Event("close", f.path))
    /\ f' = Closed
    /\ stdout' = Append(stdout, "Added version " \o new_version \o " to updates.json")
    /\ pc' = "exit"
    /\ exit' = [code |-> 0, err |-> ""]
    /\ UNCHANGED <<fs, argv, locals, history>>

\* The script is invoked again, as a new process, on the files as the
\* previous run left them.
NextRun ==
    /\ pc = "exit"
    /\ run < MaxRuns
    /\ run' = run + 1
    /\ prev' = [ran |-> TRUE, argv |-> argv, pre |-> pre, exit |-> exit]
    /\ pre' = fs
    /\ argv' \in ArgVectors
    /\ pc' = "l7"
    /\ new_version' = ""
    /\ manifest' = Unset
    /\ addon_id' = Unset
    /\ update_link' = ""
    /\ updates' = Unset
    /\ stdout' = <<>>
    /\ exit' = Running
    /\ trace' = <<>>
    /\ UNCHANGED <<fs, f>>

Next ==
    \/ CheckArgs
    \/ OpenManifest
    \/ LoadManifest
    \/ BumpVersion
    \/ SeekManifest
    \/ DumpManifest
    \/ TruncateManifest
    \/ NewlineManifest
    \/ CloseManifest
    \/ ReadAddonId
    \/ OpenUpdates
    \/ LoadUpdates
    \/ InsertRecord
    \/ SeekUpdates
    \/ DumpUpdates
    \/ TruncateUpdates
    \/ NewlineUpdates
    \/ CloseUpdates
    \/ NextRun

Spec == Init /\ [][Next]_vars

(***************************************************************************)
(* What the properties below speak of.                                     *)
(***************************************************************************)
Exited == pc = "exit"

Succeeded == pc = "exit" /\ exit.code = 0 /\ exit.err = ""

\* The run got past the argument check.
HasArgument == Len(argv) >= 2

PreManifest == JsonLoad(pre[manifest_path].content)

PostManifest == JsonLoad(fs[manifest_path].content)

PreUpdates == JsonLoad(pre[updates_path].content)

PostUpdates == JsonLoad(fs[updates_path].content)

IsObject(r) == r.ok /\ r.val.t = "obj"

\* o[k1][k2][k3] where every step is a member of an object.
Path3(o, k1, k2, k3) == GetItem(GetItem(GetItem(o, k1).val, k2).val, k3)

\* The gecko id of a manifest.
GeckoId(m) == Path3(m, "browser_specific_settings", "gecko", "id")

\* addons[id].updates of a feed.
FeedUpdates(u, id) == Path3(u, "addons", id, "updates")

\* manifest.json on disk is an object whose version is v.
ManifestHasVersion(v) ==
    /\ fs[manifest_path].exists
    /\ IsObject(PostManifest)
    /\ GetItem(PostManifest.val, "version") = [err |-> "", val |-> Str(v)]

Touched(path) == \E i \in 1..Len(trace) : trace[i].path = path

Modified(path) ==
    \E i \in 1..Len(trace) :
        trace[i].path = path /\ trace[i].op \in {"seek", "write", "truncate"}

\* A key on the path browser_specific_settings.gecko.id is missing from the
\* object that should hold it.
PathAbsent(m) ==
    /\ m.t = "obj"
    /\ \/ ~HasKey(m.v, "browser_specific_settings")
       \/ LET s == Lookup(m.v, "browser_specific_settings")
          IN  /\ s.t = "obj"
              /\ \/ ~HasKey(s.v, "gecko")
                 \/ LET g == Lookup(s.v, "gecko")
                    IN  g.t = "obj" /\ ~HasKey(g.v, "id")

\* The update record of a release of version v.
ExpectedRecord(v) ==
    Obj(<<Pair("version", Str(v)),
          Pair("update_link",
               Str("https://github.com/t4k/preserve-email/releases/download/v"
                    \o v \o "/preserve_email-" \o v \o "-tb.xpi"))>>)

\* The file is missing or its text is not JSON.
Unloadable(file) == ~file.exists \/ ~JsonLoad(file.content).ok

\* The exception that opening and loading such a file ends in.
LoadError(file) == IF file.exists THEN "JSONDecodeError" ELSE "FileNotFoundError"

\* The feed is an object without `addons`, or with an `addons` object that
\* has no key id.
AddonUnknown(u, id) ==
    /\ u.t = "obj"
    /\ \/ ~HasKey(u.v, "addons")
       \/ LET a == Lookup(u.v, "addons")
          IN  a.t = "obj" /\ ~HasKey(a.v, id)

PreviousSucceeded == prev.ran /\ prev.exit = [code |-> 0, err |-> ""]

(***************************************************************************)
(* C1: after a successful run the manifest on disk has version equal to    *)
(* the argument, and its other top-level keys are those of the manifest    *)
(* the run found, each with the value it had: none added except version,   *)
(* none removed, none changed.                                             *)
(***************************************************************************)
C1_VersionSetOthersKept ==
    Succeeded =>
        LET old == PreManifest.val.v
            new == PostManifest
        IN  /\ ManifestHasVersion(argv[2])
            /\ Keys(new.val.v) = Keys(old) \cup {"version"}
            /\ \A key \in Keys(old) \ {"version"} :
                    Lookup(new.val.v, key) = Lookup(old, key)

C1_Witness ==
    /\ Succeeded
    /\ HasKey(PreManifest.val.v, "name")
    /\ HasKey(PreManifest.val.v, "version")
    /\ Lookup(PreManifest.val.v, "version") # Str(argv[2])

(***************************************************************************)
(* C2: after a successful run addons[id].updates, id being the manifest's  *)
(* gecko id, is one element longer than the run found it, starts with the  *)
(* record of the new version and its release link, and continues with the  *)
(* old elements in their old order.                                        *)
(***************************************************************************)
C2_RecordPrepended ==
    Succeeded =>
        LET id == GeckoId(PreManifest.val).val.v
            old == FeedUpdates(PreUpdates.val, id)
            new == FeedUpdates(PostUpdates.val, id)
        IN  /\ old.err = "" /\ old.val.t = "arr"
            /\ new.err = "" /\ new.val.t = "arr"
            /\ Len(new.val.v) = Len(old.val.v) + 1
            /\ new.val.v[1] = ExpectedRecord(argv[2])
            /\ \A i \in 1..Len(old.val.v) : new.val.v[i + 1] = old.val.v[i]

C2_Witness ==
    /\ Succeeded
    /\ Len(FeedUpdates(PreUpdates.val, GeckoId(PreManifest.val).val.v).val.v) >= 2

(***************************************************************************)
(* C3: when the manifest is a JSON object that lacks a key of the path     *)
(* browser_specific_settings.gecko.id, a run with an argument ends with a  *)
(* KeyError, manifest.json already rewritten with the new version, and     *)
(* updates.json never opened and as the run found it.                      *)
(***************************************************************************)
C3_MissingIdAbortsAfterManifest ==
    (Exited /\ HasArgument /\ PreManifest.ok /\ PathAbsent(PreManifest.val)) =>
        /\ exit = [code |-> 1, err |-> "KeyError"]
        /\ ManifestHasVersion(argv[2])
        /\ Modified(manifest_path)
        /\ ~Touched(updates_path)
        /\ fs[updates_path] = pre[updates_path]

C3_Witness ==
    /\ Exited /\ HasArgument /\ PreManifest.ok /\ PathAbsent(PreManifest.val)
    /\ HasKey(PreManifest.val.v, "browser_specific_settings")
    /\ pre[updates_path].exists
    /\ fs[manifest_path] # pre[manifest_path]

(***************************************************************************)
(* C4: a run without arguments prints the usage message, exits with        *)
(* status 1 and opens, reads and writes no file.                           *)
(***************************************************************************)
C4_NoArgumentUsage ==
    (Exited /\ Len(argv) = 1) =>
        /\ stdout = <<"Usage: python3 .github/scripts/release.py <new_version>">>
        /\ exit = [code |-> 1, err |-> "SystemExit"]
        /\ trace = <<>>
        /\ fs = pre

C4_Witness ==
    /\ Exited /\ Len(argv) = 1
    /\ pre[manifest_path].exists /\ pre[updates_path].exists
    /\ IsObject(PreManifest) /\ IsObject(PreUpdates)

(***************************************************************************)
(* C5: two successful runs in a row with the same version leave two equal  *)
(* records of that version at the head of addons[id].updates, the list     *)
(* two longer than before the first run, and the second run leaves         *)
(* manifest.json exactly as the first one left it.                         *)
(***************************************************************************)
C5_SecondRunDuplicates ==
    (Succeeded /\ PreviousSucceeded /\ prev.argv[2] = argv[2]) =>
        LET id == GeckoId(PreManifest.val).val.v
            before == FeedUpdates(JsonLoad(prev.pre[updates_path].content).val, id)
            new == FeedUpdates(PostUpdates.val, id)
        IN  /\ new.err = "" /\ new.val.t = "arr"
            /\ Len(new.val.v) = Len(before.val.v) + 2
            /\ new.val.v[1] = ExpectedRecord(argv[2])
            /\ new.val.v[2] = ExpectedRecord(argv[2])
            /\ \A i \in 1..Len(before.val.v) : new.val.v[i + 2] = before.val.v[i]
            /\ fs[manifest_path] = pre[manifest_path]

C5_Witness ==
    /\ Succeeded /\ PreviousSucceeded /\ prev.argv[2] = argv[2]
    /\ Len(FeedUpdates(PostUpdates.val, GeckoId(PreManifest.val).val.v).val.v) >= 3
    /\ prev.pre[manifest_path] # pre[manifest_path]

(***************************************************************************)
(* C6: when the feed has no `addons` or its `addons` has no key for the    *)
(* manifest's id, the run ends with a KeyError after manifest.json was     *)
(* rewritten with the new version, before any seek or write on             *)
(* updates.json, which stays as the run found it.                          *)
(***************************************************************************)
C6_UnknownAddonAborts ==
    (/\ Exited /\ HasArgument
     /\ PreManifest.ok /\ GeckoId(PreManifest.val).err = ""
     /\ PreUpdates.ok
     /\ AddonUnknown(PreUpdates.val, GeckoId(PreManifest.val).val.v)) =>
        /\ exit = [code |-> 1, err |-> "KeyError"]
        /\ ManifestHasVersion(argv[2])
        /\ Modified(manifest_path)
        /\ ~Modified(updates_path)
        /\ fs[updates_path] = pre[updates_path]

C6_Witness ==
    /\ Exited /\ HasArgument
    /\ PreManifest.ok /\ GeckoId(PreManifest.val).err = ""
    /\ PreUpdates.ok
    /\ AddonUnknown(PreUpdates.val, GeckoId(PreManifest.val).val.v)
    /\ HasKey(PreUpdates.val.v, "addons")
    /\ Touched(updates_path)

(***************************************************************************)
(* C7: a file that is missing or does not hold JSON is never written: the  *)
(* run ends with the file as it was, a missing one still missing.  When    *)
(* that file is manifest.json, updates.json is untouched as well; when it  *)
(* is updates.json and the manifest gave the run its addon id,             *)
(* manifest.json has been rewritten with the new version.                  *)
(***************************************************************************)
C7_UnloadableFileNotWritten ==
    (Exited /\ HasArgument) =>
        /\ \A p \in Paths :
                Unloadable(pre[p]) => fs[p] = pre[p] /\ ~Modified(p)
        /\ Unloadable(pre[manifest_path]) =>
                /\ exit = [code |-> 1, err |-> LoadError(pre[manifest_path])]
                /\ ~Touched(updates_path)
                /\ fs[updates_path] = pre[updates_path]
        /\ (/\ Unloadable(pre[updates_path])
            /\ PreManifest.ok /\ GeckoId(PreManifest.val).err = "") =>
                /\ exit = [code |-> 1, err |-> LoadError(pre[updates_path])]
                /\ ManifestHasVersion(argv[2])
                /\ Modified(manifest_path)

C7_Witness ==
    /\ Exited /\ HasArgument
    /\ pre[updates_path].exists
    /\ Len(pre[updates_path].content) > 0
    /\ Unloadable(pre[updates_path])
    /\ exit.err = "JSONDecodeError"
    /\ Touched(updates_path)

(***************************************************************************)
(* C8 as stated: every run whose number of arguments is not exactly one    *)
(* (none, or two and more) ends in the usage error, with exit status 1,    *)
(* before any file operation and with both files unmodified.               *)
(***************************************************************************)
C8_AnyOtherCountIsUsageError ==
    (Exited /\ Len(argv) # 2) =>
        /\ stdout = <<Usage>>
        /\ exit = [code |-> 1, err |-> "SystemExit"]
        /\ trace = <<>>
        /\ fs = pre

(***************************************************************************)
(* C8 amended: a run ends in the usage error, with exit status 1 and       *)
(* before any file operation, exactly when it has no argument.  With two   *)
(* and more arguments there is no usage error: the run takes the first     *)
(* argument as the new version, ignores the rest and goes on to            *)
(* manifest.json.                                                          *)
(***************************************************************************)
C8_UsageErrorOnlyWithoutArgument ==
    Exited =>
        IF Len(argv) < 2
        THEN /\ stdout = <<Usage>>
             /\ exit = [code |-> 1, err |-> "SystemExit"]
             /\ trace = <<>>
             /\ fs = pre
        ELSE /\ exit.err # "SystemExit"
             /\ \A i \in 1..Len(stdout) : stdout[i] # Usage
             /\ new_version = argv[2]
             /\ Len(stdout) >= 1 /\ stdout[1] = "Reading manifest.json..."
             /\ pre[manifest_path].exists => Touched(manifest_path)
             /\ Succeeded => ManifestHasVersion(argv[2])

C8_Witness ==
    /\ Succeeded
    /\ Len(argv) > 2
    /\ fs[manifest_path] # pre[manifest_path]
    /\ fs[updates_path] # pre[updates_path]

(***************************************************************************)
(* C9: when the rewrite of a file is done (seek to 0, dump, truncate,      *)
(* newline) the file holds the 2-space serialization of the updated        *)
(* structure followed by one newline and nothing else, whatever the        *)
(* length of the text it held before; it loads back as that structure.     *)
(***************************************************************************)
C9_RewriteLeavesSerialization ==
    /\ pc = "l25" =>
            /\ fs[manifest_path].content = Dump(manifest, 2, 0) \o <<W("\n")>>
            /\ JsonLoad(fs[manifest_path].content) = ParseOk(manifest, Len(fs[manifest_path].content))
    /\ pc = "l43" =>
            /\ fs[updates_path].content = Dump(updates, 2, 0) \o <<W("\n")>>
            /\ JsonLoad(fs[updates_path].content) = ParseOk(updates, Len(fs[updates_path].content))
            /\ fs[manifest_path].content = Dump(manifest, 2, 0) \o <<W("\n")>>

C9_Witness ==
    /\ pc = "l43"
    /\ Len(pre[manifest_path].content) > Len(fs[manifest_path].content)
    /\ Len(pre[updates_path].content) > Len(fs[updates_path].content)

(***************************************************************************)
(* C10: no run, successful or not, adds or removes a key of the feed's     *)
(* `addons`; a successful run leaves every other addon, every field of the *)
(* matched addon but `updates`, and every top-level key of the feed but    *)
(* `addons` as it found them.                                              *)
(***************************************************************************)
C10_FeedFrame ==
    (/\ Exited
     /\ IsObject(PreUpdates)
     /\ GetItem(PreUpdates.val, "addons").err = ""
     /\ GetItem(PreUpdates.val, "addons").val.t = "obj") =>
        LET old == PreUpdates.val
            new == PostUpdates.val
            oldAddons == GetItem(old, "addons").val
            newAddons == GetItem(new, "addons").val
        IN  /\ IsObject(PostUpdates)
            /\ newAddons.t = "obj"
            /\ Keys(newAddons.v) = Keys(oldAddons.v)
            /\ Succeeded =>
                LET id == GeckoId(PreManifest.val).val.v
                    oldAddon == Lookup(oldAddons.v, id)
                    newAddon == Lookup(newAddons.v, id)
                IN  /\ \A a \in Keys(oldAddons.v) \ {id} :
                            Lookup(newAddons.v, a) = Lookup(oldAddons.v, a)
                    /\ newAddon.t = "obj"
                    /\ Keys(newAddon.v) = Keys(oldAddon.v)
                    /\ \A key \in Keys(oldAddon.v) \ {"updates"} :
                            Lookup(newAddon.v, key) = Lookup(oldAddon.v, key)
                    /\ Keys(new.v) = Keys(old.v)
                    /\ \A key \in Keys(old.v) \ {"addons"} :
                            Lookup(new.v, key) = Lookup(old.v, key)

C10_Witness ==
    /\ Succeeded
    /\ IsObject(PreUpdates)
    /\ HasKey(PreUpdates.val.v, "comment")
    /\ Cardinality(Keys(GetItem(PreUpdates.val, "addons").val.v)) >= 2
    /\ HasKey(Lookup(GetItem(PreUpdates.val, "addons").val.v,
                     GeckoId(PreManifest.val).val.v).v, "name")

=============================================================================
